---------------------------- MODULE Spec2Model ----------------------------
(***************************************************************************)
(* A model of the publication discovery and classification pipeline:       *)
(*   scripts/fetch_ucc_scholar.py  build_queries, scrape_for_name,         *)
(*                                 fetch_period                            *)
(*   scripts/check_dric.py         _extract_article_url, _crawl_article,   *)
(*                                 _ask_dric, _process_row,                *)
(*                                 process_period_async                    *)
(* Strings the code inspects character by character are sequences of       *)
(* one-character strings.  Time is counted in ticks of half a second.      *)
(***************************************************************************)
EXTENDS Integers, Sequences, FiniteSets, TLC

(***************************************************************************)
(* State.                                                                  *)
(***************************************************************************)
\* one call of build_queries: its argument, its result, its position
VARIABLES q_full_name, queries, qpc

\* one call of scrape_for_name: the portal's table and the rows rendered so
\* far, the arguments, the locals last_count and results, the position, the
\* returned list; extracted (the row indices read so far, in order),
\* scroll_failed and passes (the iterations of the while loop so far) are
\* history
VARIABLES table, rendered, year_min, per_name_limit, last_count, results, spc,
          scrape_ret, extracted, scroll_failed, passes

\* check_dric.py: the module globals and the frames of the running (or last)
\* call of _crawl_article and of _ask_dric.  A timestamp t of time.monotonic()
\* is held as its age, time.monotonic() - t, in ticks and capped at AgeCap: the
\* code reads the clock only to compare this difference with an interval.
\* A frame holds the argument, the loop variable attempt, the value returned
\* and, as history, outcomes (one entry per call the function made to its
\* service), sleeps (the rate-limit sleep before each of these calls) and
\* backoffs (the backoff sleeps, in order) and got (the last response of the
\* service); n_crawl and n_ask count the calls of the two functions, fetched
\* and answered map each URL and each text to what the last call on it
\* returned (history); fc_last is the age of the last call made to the
\* extraction service (history, None before the first)
VARIABLES _ARTICLE_CACHE, _DRIC_CACHE, _LAST_FIRECRAWL_CALL, _LAST_GROQ_CALL,
          crawl, ask, n_crawl, n_ask, fetched, answered, fc_last

\* one run of process_period_async: the input file, the position, the frame
\* df_in, the loop index, the locals of _process_row, the list results, the
\* Playwright driver, the browser and its context, the file written, the
\* exception that ended the run; navigated (a page navigation has been
\* started), row_mark (n_crawl and n_ask when the row began) and row_log (one
\* entry per record emitted) are history
VARIABLES raw_file, ppc, df_in, row_idx, article_url, article_text, dric_results,
          pw, browser, ctx, out_file, run_error, navigated, row_mark, row_log

\* one run of fetch_period: the period string and the awardee file, the
\* position, the locals awardees, years_in_period, year_min and year_max (None
\* until bound), the Playwright driver and the browser, the awardee and the
\* query the loops are at and the queries of that awardee (None before
\* build_queries), the list collected and the file written, the exception that
\* ended the run; out_dir_made, fp_navigated (the portal has been navigated
\* to) and fp_searches (the queries handed to scrape_for_name) are history
VARIABLES period, awardee_file, fpc, awardees, out_dir_made, years_in_period,
          fp_year_min, fp_year_max, fp_pw, fp_browser, a_idx, fp_queries, q_idx,
          collected, raw_publications, fp_error, fp_navigated, fp_searches

\* one call of _extract_article_url: what it meets, the position, the page
\* it opened, the locals link, table_link and repo_file, the value returned;
\* r_closes (the calls of page.close()) and r_raised (an exception left the
\* function) are history
VARIABLES r_env, rpc, r_page, r_link, r_table_link, r_repo_file, r_ret, r_closes,
          r_raised

qvars == <<q_full_name, queries, qpc>>

rvars == <<r_env, rpc, r_page, r_link, r_table_link, r_repo_file, r_ret, r_closes,
           r_raised>>

fvars == <<period, awardee_file, fpc, awardees, out_dir_made, years_in_period,
           fp_year_min, fp_year_max, fp_pw, fp_browser, a_idx, fp_queries, q_idx,
           collected, raw_publications, fp_error, fp_navigated, fp_searches>>

pvars == <<raw_file, ppc, df_in, row_idx, article_url, article_text, dric_results,
           pw, browser, ctx, out_file, run_error, navigated, row_mark, row_log>>

gvars == <<_ARTICLE_CACHE, _DRIC_CACHE, _LAST_FIRECRAWL_CALL, _LAST_GROQ_CALL,
           crawl, ask, n_crawl, n_ask, fetched, answered, fc_last>>

svars == <<table, rendered, year_min, per_name_limit, last_count, results, spc,
           scrape_ret, extracted, scroll_failed, passes>>

vars == <<qvars, svars, gvars, pvars, fvars, rvars>>

NotQueries == <<svars, gvars, pvars, fvars, rvars>>

NotScrape == <<qvars, gvars, pvars, fvars, rvars>>

\* what a step of fetch_period leaves alone
NotFetch == <<qvars, svars, gvars, pvars, rvars>>

\* what a step inside _crawl_article or _ask_dric leaves alone
NotServices == <<qvars, svars, pvars, fvars, rvars>>

\* what a step of process_period_async leaves alone besides the globals
NotPipeline == <<qvars, svars, fvars, rvars>>

\* what a step of _extract_article_url leaves alone
NotResolve == <<qvars, svars, gvars, pvars, fvars>>

(***************************************************************************)
(* Sequence and string helpers (Python built-ins the code relies on).      *)
(***************************************************************************)
Range(s) == {s[i] : i \in 1..Len(s)}

Min2(a, b) == IF a <= b THEN a ELSE b

\* str.isspace for the characters of the model
IsSpace(c) == c = " "

\* str.strip(): drop leading and trailing whitespace
RECURSIVE LStrip(_)
LStrip(s) ==
  IF s # <<>> /\ IsSpace(Head(s)) THEN LStrip(Tail(s)) ELSE s

RECURSIVE RStrip(_)
RStrip(s) ==
  IF s # <<>> /\ IsSpace(s[Len(s)]) THEN RStrip(SubSeq(s, 1, Len(s) - 1)) ELSE s

Strip(s) == RStrip(LStrip(s))

\* str.split() with no argument: maximal runs of non-whitespace characters
RECURSIVE SplitFrom(_, _, _)
SplitFrom(s, cur, acc) ==
  IF s = <<>> THEN (IF cur = <<>> THEN acc ELSE Append(acc, cur))
  ELSE IF IsSpace(Head(s))
       THEN SplitFrom(Tail(s), <<>>, IF cur = <<>> THEN acc ELSE Append(acc, cur))
       ELSE SplitFrom(Tail(s), Append(cur, Head(s)), acc)

Split(s) == SplitFrom(s, <<>>, <<>>)

\* "".join(m[0] for m in toks)
RECURSIVE Initials(_)
Initials(toks) ==
  IF toks = <<>> THEN <<>> ELSE <<Head(toks)[1]>> \o Initials(Tail(toks))

\* f"{a} {b}"
WithSpace(a, b) == a \o <<" ">> \o b

\* the loop "for v in order: if v and v not in ordered: ordered.append(v)"
RECURSIVE AppendNew(_, _)
AppendNew(ordered, order) ==
  IF order = <<>> THEN ordered
  ELSE AppendNew(IF Head(order) # <<>> /\ Head(order) \notin Range(ordered)
                 THEN Append(ordered, Head(order)) ELSE ordered,
                 Tail(order))

\* every enumeration, without repetition, of a finite set (iteration order of
\* a Python set is unspecified)
RECURSIVE Enumerations(_)
Enumerations(S) ==
  IF S = {} THEN {<<>>}
  ELSE UNION {{<<x>> \o e : e \in Enumerations(S \ {x})} : x \in S}

(***************************************************************************)
(* build_queries (fetch_ucc_scholar.py)                                    *)
(***************************************************************************)
\* parts = [p.strip() for p in full_name.split() if p.strip()]
NameParts(full_name) == Split(full_name)

\* preferred_order with the first name in full where its initial belongs
PreferredOrderFullFirst(full_name) ==
  LET parts == NameParts(full_name)
      first == parts[1]
      last == parts[Len(parts)]
      middles == SubSeq(parts, 2, Len(parts) - 1)
      initials_concat == <<first[1]>> \o Initials(middles)
      mid_last_concat == Initials(middles) \o <<last[1]>>
  IN  <<Strip(full_name), WithSpace(first, last)>>
      \o [i \in 1..Len(middles) |-> WithSpace(<<middles[i][1]>>, last)]
      \o (IF initials_concat # <<>> THEN <<WithSpace(initials_concat, last)>> ELSE <<>>)
      \o (IF middles # <<>> THEN <<WithSpace(first, mid_last_concat)>> ELSE <<>>)

\* the list preferred_order, lines 158-166
PreferredOrder(full_name) ==
  LET parts == NameParts(full_name)
      first == parts[1]
      last == parts[Len(parts)]
      middles == SubSeq(parts, 2, Len(parts) - 1)
      initials_concat == <<first[1]>> \o Initials(middles)
      mid_last_concat == Initials(middles) \o <<last[1]>>
  IN  <<Strip(full_name), WithSpace(<<first[1]>>, last)>>
      \o [i \in 1..Len(middles) |-> WithSpace(<<middles[i][1]>>, last)]
      \o (IF initials_concat # <<>> THEN <<WithSpace(initials_concat, last)>> ELSE <<>>)
      \o (IF middles # <<>> THEN <<WithSpace(first, mid_last_concat)>> ELSE <<>>)

\* the set variants, lines 139-155: the same strings, as a set
Variants(full_name) == Range(PreferredOrder(full_name))

\* the first loop without its membership test
OrderedKeepsDuplicates(full_name) == PreferredOrder(full_name)

\* the first loop, lines 168-171
Ordered(full_name) == AppendNew(<<>>, PreferredOrder(full_name))

\* the lists build_queries can return: lines 131-133, then ordered followed by
\* the variants not yet in it in the set's iteration order (lines 172-175)
build_queries(full_name) ==
  IF NameParts(full_name) = <<>> THEN {<<full_name>>}
  ELSE {Ordered(full_name) \o rest :
          rest \in Enumerations(Variants(full_name) \ Range(Ordered(full_name)))}

(***************************************************************************)
(* Inputs of build_queries: names of up to MaxTokens tokens, separated by  *)
(* one or two blanks, with or without surrounding blanks.                  *)
(***************************************************************************)
MaxTokens == 3

Kwame == <<"K", "w", "a", "m", "e">>
Asante == <<"A", "s", "a", "n", "t", "e">>
Boateng == <<"B", "o", "a", "t", "e", "n", "g">>
Plato == <<"P", "l", "a", "t", "o">>
LetterA == <<"A">>

Tokens == {Kwame, Asante, Boateng, Plato, LetterA}

RECURSIVE JoinWith(_, _)
JoinWith(toks, sep) ==
  IF toks = <<>> THEN <<>>
  ELSE IF Len(toks) = 1 THEN Head(toks)
  ELSE Head(toks) \o sep \o JoinWith(Tail(toks), sep)

TokenLists == UNION {[1..n -> Tokens] : n \in 0..MaxTokens}

Names ==
  {pad \o JoinWith(toks, sep) \o pad :
     toks \in TokenLists, sep \in {<<" ">>, <<" ", " ">>}, pad \in {<<>>, <<" ">>}}

QueriesInit ==
  /\ q_full_name \in Names
  /\ queries = <<>>
  /\ qpc = "call"

QueriesIdle ==
  /\ q_full_name = <<>>
  /\ queries = <<>>
  /\ qpc = "idle"

\* one call build_queries(q_full_name)
BuildQueries ==
  /\ qpc = "call"
  /\ queries' \in build_queries(q_full_name)
  /\ qpc' = "returned"
  /\ UNCHANGED q_full_name
  /\ UNCHANGED NotQueries

NextQueries == BuildQueries

(***************************************************************************)
(* Year texts and the regular expression \d{4}                             *)
(***************************************************************************)
Digits == <<"0", "1", "2", "3", "4", "5", "6", "7", "8", "9">>

IsDigit(c) == c \in Range(Digits)

DigitVal(c) == CHOOSE d \in 0..9 : Digits[d + 1] = c

\* int(s) for a string of four digits
Int4(s) == DigitVal(s[1]) * 1000 + DigitVal(s[2]) * 100 + DigitVal(s[3]) * 10 + DigitVal(s[4])

\* str(y) for a year of four digits
YearText(y) ==
  <<Digits[((y \div 1000) % 10) + 1], Digits[((y \div 100) % 10) + 1],
    Digits[((y \div 10) % 10) + 1], Digits[(y % 10) + 1]>>

Is4Digits(s, i) == i + 3 <= Len(s) /\ \A k \in i..(i + 3) : IsDigit(s[k])

\* re.findall(r"\d{4}", s): the non-overlapping matches, scanning from the left
RECURSIVE FindAllFrom(_, _)
FindAllFrom(s, i) ==
  IF i > Len(s) THEN <<>>
  ELSE IF Is4Digits(s, i) THEN <<SubSeq(s, i, i + 3)>> \o FindAllFrom(s, i + 4)
  ELSE FindAllFrom(s, i + 1)

FindAll4Digits(s) == FindAllFrom(s, 1)

\* an optional integer is None or Some(n)
None == <<>>

Some(n) == <<n>>

Val(opt) == opt[1]

\* int(re.search(r"(\d{4})", year_text).group(1)), None when the search fails
\* (the AttributeError is caught): lines 86-89 and 227-230
ParseYear(year_text) ==
  LET found == FindAll4Digits(year_text)
  IN  IF found = <<>> THEN None ELSE Some(Int4(found[1]))

(***************************************************************************)
(* scrape_for_name (fetch_ucc_scholar.py)                                  *)
(*                                                                         *)
(* table is the list of rows the portal holds for the query, in the order  *)
(* it displays them; rendered is the number of row wrappers in the DOM.    *)
(* A row is [pub, year_text]: pub stands for (authors, title, link).       *)
(***************************************************************************)
\* min(count, per_name_limit if per_name_limit is not None else float("inf"))
RangeStop(count, limit) == IF limit = None THEN count ELSE Min2(count, Val(limit))

\* the first index the for loop of line 78 visits: range(last_count + 1, ...)
RangeStart(last) == last + 1

\* a loop that stops at no row
FloorIgnored(pub_year, ymin) == FALSE

\* "if pub_year is not None and pub_year < year_min", line 92
BelowFloor(pub_year, ymin) == pub_year # None /\ Val(pub_year) < ymin

\* the body of the for loop, lines 78-95, for the indices lo..hi-1 (0-based):
\* res is the list results, seen the indices extracted so far; stop is TRUE when
\* line 93 returned
RECURSIVE ExtractRows(_, _, _, _, _, _)
ExtractRows(tbl, lo, hi, ymin, res, seen) ==
  IF lo >= hi THEN [results |-> res, extracted |-> seen, stop |-> FALSE]
  ELSE LET row == tbl[lo + 1]
           pub_year == ParseYear(row.year_text)
       IN  IF BelowFloor(pub_year, ymin)
           THEN [results |-> res, extracted |-> Append(seen, lo), stop |-> TRUE]
           ELSE ExtractRows(tbl, lo + 1, hi, ymin, Append(res, row), Append(seen, lo))

\* results[:per_name_limit], lines 111-113
Truncate(res, limit) ==
  IF limit = None THEN res ELSE SubSeq(res, 1, Min2(Len(res), Val(limit)))

\* a loop that goes on although no new row was rendered
BreaksAtCapOnly(count, last, res, limit) == limit # None /\ Len(res) >= Val(limit)

\* the break condition of lines 97-99
LoopBreaks(count, last, res, limit) ==
  count = last \/ (limit # None /\ Len(res) >= Val(limit))

\* lines 45-47: clear and fill the search field, press Enter; a missing search
\* field raises out of scrape_for_name
ScrapeSearch ==
  /\ spc = "search"
  /\ \E ok \in BOOLEAN : spc' = IF ok THEN "wait" ELSE "raised"
  /\ UNCHANGED <<table, rendered, year_min, per_name_limit, last_count, results,
                 scrape_ret, extracted, scroll_failed, passes>>
  /\ UNCHANGED NotScrape

\* lines 51-55: wait for the first row; on timeout return []
\* (no row ever appears for an empty table)
ScrapeWait ==
  /\ spc = "wait"
  /\ \/ /\ table # <<>>
        /\ \E n \in 1..Len(table) : rendered' = n
        /\ spc' = "sort"
        /\ UNCHANGED scrape_ret
     \/ /\ spc' = "returned"
        /\ scrape_ret' = <<>>
        /\ UNCHANGED rendered
  /\ UNCHANGED <<table, year_min, per_name_limit, last_count, results, extracted,
                 scroll_failed, passes>>
  /\ UNCHANGED NotScrape

\* lines 58-72: two clicks on the year header (a failure is ignored); results = [],
\* last_count = -1
ScrapeSort ==
  /\ spc = "sort"
  /\ spc' = "loop"
  /\ results' = <<>>
  /\ last_count' = -1
  /\ UNCHANGED <<table, rendered, year_min, per_name_limit, scrape_ret, extracted,
                 scroll_failed, passes>>
  /\ UNCHANGED NotScrape

\* one iteration of the while loop, lines 73-109: count the rendered rows,
\* extract the new ones, then return, break or scroll (the scroll renders more
\* rows while the table has more, or raises)
ScrapeIteration ==
  /\ spc = "loop"
  /\ passes' = passes + 1
  /\ LET count == rendered
         ex == ExtractRows(table, RangeStart(last_count),
                           RangeStop(count, per_name_limit), year_min, results, extracted)
     IN  /\ results' = ex.results
         /\ extracted' = ex.extracted
         /\ IF ex.stop
            THEN /\ spc' = "returned"
                 /\ scrape_ret' = ex.results
                 /\ UNCHANGED <<last_count, rendered, scroll_failed>>
            ELSE IF LoopBreaks(count, last_count, ex.results, per_name_limit)
            THEN /\ spc' = "returned"
                 /\ scrape_ret' = Truncate(ex.results, per_name_limit)
                 /\ UNCHANGED <<last_count, rendered, scroll_failed>>
            ELSE /\ last_count' = count
                 /\ \/ /\ \E n \in rendered..Len(table) :
                            /\ (rendered < Len(table) => n > rendered)
                            /\ rendered' = n
                       /\ spc' = "loop"
                       /\ UNCHANGED <<scrape_ret, scroll_failed>>
                    \/ /\ scroll_failed' = TRUE
                       /\ spc' = "returned"
                       /\ scrape_ret' = Truncate(ex.results, per_name_limit)
                       /\ UNCHANGED rendered
  /\ UNCHANGED <<table, year_min, per_name_limit>>
  /\ UNCHANGED NotScrape

\* a cell of a new row cannot be read (inner_text raises): the exception leaves
\* scrape_for_name, lines 80-84
ScrapeRowError ==
  /\ spc = "loop"
  /\ RangeStart(last_count) < RangeStop(rendered, per_name_limit)
  /\ spc' = "raised"
  /\ UNCHANGED <<table, rendered, year_min, per_name_limit, last_count, results,
                 scrape_ret, extracted, scroll_failed, passes>>
  /\ UNCHANGED NotScrape

NextScrape ==
  \/ ScrapeSearch
  \/ ScrapeWait
  \/ ScrapeSort
  \/ ScrapeIteration
  \/ ScrapeRowError

(***************************************************************************)
(* Inputs of scrape_for_name: the tables of up to MaxTable rows over a few *)
(* year texts, and the tables whose row N has year TopYear - N.            *)
(***************************************************************************)
MaxTable == 3
MaxDescending == 8
MaxLimit == 3
TopYear == 2025

NoYearText == <<"n", "/", "a">>

YearTexts == {YearText(2021), YearText(2020), YearText(2019), NoYearText}

RowsOf(texts) == [i \in 1..Len(texts) |-> [pub |-> i - 1, year_text |-> texts[i]]]

DescendingTable(n) == RowsOf([i \in 1..n |-> YearText(TopYear - (i - 1))])

Tables ==
  {RowsOf(t) : t \in UNION {[1..n -> YearTexts] : n \in 0..MaxTable}}
    \cup {DescendingTable(n) : n \in 0..MaxDescending}

Limits == {None} \cup {Some(n) : n \in 1..MaxLimit}

ScrapeInit ==
  /\ table \in Tables
  /\ year_min \in {2020, 2021}
  /\ per_name_limit \in Limits
  /\ rendered = 0
  /\ last_count = -1
  /\ results = <<>>
  /\ spc = "search"
  /\ scrape_ret = <<>>
  /\ extracted = <<>>
  /\ scroll_failed = FALSE
  /\ passes = 0

ScrapeIdle ==
  /\ table = <<>>
  /\ year_min = 0
  /\ per_name_limit = None
  /\ rendered = 0
  /\ last_count = -1
  /\ results = <<>>
  /\ spc = "idle"
  /\ scrape_ret = <<>>
  /\ extracted = <<>>
  /\ scroll_failed = FALSE
  /\ passes = 0

(***************************************************************************)
(* check_dric.py: links, article texts, service responses                  *)
(***************************************************************************)
\* a link is [http, host, path]: http tells whether the string starts with
\* "http", host is urlparse(link).netloc, path the rest
PublisherPage == [http |-> TRUE, host |-> "publisher.org", path |-> "/article"]
PublisherPdf == [http |-> TRUE, host |-> "publisher.org", path |-> "/article.pdf"]

\* url.lower().endswith(".pdf"), line 160
EndsWithPdf(url) == url.path \in {"/article.pdf", "/bitstream/1/file.pdf", "file.pdf"}

\* scrape_opts, lines 154-161: whether waitFor is set
ScrapeOpts(url) == [timeout |-> 45000, waitFor |-> IF EndsWithPdf(url) THEN None ELSE Some(500)]

\* what firecrawl_client.scrape_url returns: a dict with optional "markdown" and
\* "text" entries ("" stands for a missing or empty entry), or another object
\* with its str()
FirecrawlResults ==
  {[kind |-> "dict", markdown |-> m, text |-> t, str |-> ""] :
     m \in {"", "article one"}, t \in {"", "article two"}}
    \cup {[kind |-> "other", markdown |-> "", text |-> "", str |-> v] :
            v \in {"", "article one"}}

\* lines 176-181
ExtractText(result) ==
  IF result.kind = "dict"
  THEN (IF result.markdown # "" THEN result.markdown
        ELSE IF result.text # "" THEN result.text ELSE "")
  ELSE result.str

\* an exception of a service: whether str(exc).lower() holds "429", and
\* whether it holds "rate limit"
ServiceErrors == [has429 : BOOLEAN, rate_limit : BOOLEAN]

\* lines 189 and 234
IsThrottling(exc) == exc.has429 \/ exc.rate_limit

\* hashlib.sha256(text.encode("utf-8")).hexdigest(): one digest per text
Digest(text) == <<"sha256", text>>

\* str.upper() on the characters of the model
UpperChar(c) ==
  CASE c = "y" -> "Y" [] c = "e" -> "E" [] c = "s" -> "S"
    [] c = "n" -> "N" [] c = "o" -> "O" [] OTHER -> c

Upper(s) == [i \in 1..Len(s) |-> UpperChar(s[i])]

StartsWith(s, prefix) == Len(s) >= Len(prefix) /\ SubSeq(s, 1, Len(prefix)) = prefix

\* lines 226-227; content is None or Some(string)
ParseAnswer(content) ==
  LET answer_raw == Upper(Strip(IF content = None THEN <<>> ELSE Val(content)))
  IN  IF StartsWith(answer_raw, <<"Y", "E", "S">>) THEN "YES" ELSE "NO"

\* the contents resp_msg.content can hold
ModelReplies ==
  {None, Some(<<>>), Some(<<"Y", "E", "S">>), Some(<<" ", "y", "e", "s", ".">>),
   Some(<<"N", "O">>), Some(<<"Y", "E">>), Some(<<"n", "o", " ", "y", "e", "s">>)}

(***************************************************************************)
(* Constants of check_dric.py, in ticks.                                   *)
(***************************************************************************)
\* half-second ticks: the smallest unit in which 1.5 s (line 235) is whole
TicksPerSecond == 2

_FIRECRAWL_MIN_INTERVAL == 2 * TicksPerSecond

_GROQ_MIN_INTERVAL == 1 * TicksPerSecond

\* the default of max_retries in _crawl_article and in _ask_dric
CrawlMaxRetries == 3

\* a classifier that tries once more than max_retries
AskRetriesOneMore == CrawlMaxRetries + 2

AskMaxRetries == 4

\* a backoff that does not grow with the attempt
FirecrawlBackoffFlat(attempt) == _FIRECRAWL_MIN_INTERVAL

\* backoff = delay_base * attempt, lines 163 and 190
FirecrawlBackoff(attempt) == _FIRECRAWL_MIN_INTERVAL * attempt

\* backoff = 1.5 * attempt, line 235
GroqBackoff(attempt) == (3 * TicksPerSecond * attempt) \div 2

\* lines 166-169 and 216-219: the sleep that keeps min_interval between calls;
\* Val(last_call) is elapsed, the age of the timestamp
RateLimitSleep(last_call, min_interval) ==
  IF last_call # None /\ Val(last_call) < min_interval
  THEN min_interval - Val(last_call)
  ELSE 0

\* ages are exact below the longest interval the code compares them with
AgeCap == _FIRECRAWL_MIN_INTERVAL

\* a timestamp after d more ticks
Aged(last_call, d) ==
  IF last_call = None THEN None ELSE Some(Min2(Val(last_call) + d, AgeCap))

\* the same for _LAST_GROQ_CALL, which is compared with the shorter interval
GroqAged(last_call, d) ==
  IF last_call = None THEN None ELSE Some(Min2(Val(last_call) + d, _GROQ_MIN_INTERVAL))

\* the time a call to a service takes, in ticks
MaxLatency == 1

Latencies == 0..MaxLatency

(***************************************************************************)
(* _crawl_article                                                          *)
(***************************************************************************)
IdleFrame == [pc |-> "idle", arg |-> None, attempt |-> 0, ret |-> "",
              outcomes |-> <<>>, sleeps |-> <<>>, backoffs |-> <<>>, got |-> None]

\* the lookup "if _ARTICLE_CACHE.get(url)", which misses a cached empty string
ArticleCacheHitNonEmpty(cache, url) == url \in DOMAIN cache /\ cache[url] # ""

\* line 148
ArticleCacheHit(cache, url) == url \in DOMAIN cache

\* _ARTICLE_CACHE[url] = text
Store(cache, key, value) == [k \in DOMAIN cache \cup {key} |-> IF k = key THEN value ELSE cache[k]]

\* lines 148-163: the cache lookup; a hit returns at once
CrawlEnter(url) ==
  /\ crawl.pc # "loop" /\ ask.pc # "loop"
  /\ n_crawl' = n_crawl + 1
  /\ crawl' = IF ArticleCacheHit(_ARTICLE_CACHE, url)
              THEN [IdleFrame EXCEPT !.pc = "returned", !.arg = Some(url),
                                     !.ret = _ARTICLE_CACHE[url]]
              ELSE [IdleFrame EXCEPT !.pc = "loop", !.arg = Some(url), !.attempt = 1]
  /\ fetched' = IF crawl'.pc = "returned" THEN Store(fetched, url, crawl'.ret) ELSE fetched
  /\ UNCHANGED <<_ARTICLE_CACHE, _DRIC_CACHE, _LAST_FIRECRAWL_CALL, _LAST_GROQ_CALL,
                 ask, n_ask, answered, fc_last>>

\* one attempt of the loop of lines 165-196, with lines 198-199 when it is the
\* last: the rate-limit sleep, the call, then the result cached and returned,
\* or the backoff sleep, or the break
CrawlAttempt ==
  /\ crawl.pc = "loop"
  /\ LET url == Val(crawl.arg)
         sleep == RateLimitSleep(_LAST_FIRECRAWL_CALL, _FIRECRAWL_MIN_INTERVAL)
         backoff == FirecrawlBackoff(crawl.attempt)
         called == [crawl EXCEPT !.sleeps = Append(@, sleep)]
     IN  \E d \in Latencies :
           \/ \E result \in FirecrawlResults :
                /\ _ARTICLE_CACHE' = Store(_ARTICLE_CACHE, url, ExtractText(result))
                /\ crawl' = [called EXCEPT !.pc = "returned", !.ret = ExtractText(result),
                                           !.outcomes = Append(@, "ok"),
                                           !.got = Some(result)]
                /\ _LAST_FIRECRAWL_CALL' = Aged(_LAST_FIRECRAWL_CALL, sleep + d)
                /\ fc_last' = Aged(Some(0), d)
                /\ _LAST_GROQ_CALL' = GroqAged(_LAST_GROQ_CALL, sleep + d)
           \/ \E exc \in ServiceErrors :
                IF IsThrottling(exc)
                THEN /\ _LAST_FIRECRAWL_CALL' = Aged(_LAST_FIRECRAWL_CALL, sleep + d + backoff)
                     /\ fc_last' = Aged(Some(0), d + backoff)
                     /\ _LAST_GROQ_CALL' = GroqAged(_LAST_GROQ_CALL, sleep + d + backoff)
                     /\ IF crawl.attempt < CrawlMaxRetries
                        THEN /\ crawl' = [called EXCEPT !.attempt = @ + 1,
                                                   !.outcomes = Append(@, "throttled"),
                                                   !.backoffs = Append(@, backoff)]
                             /\ UNCHANGED _ARTICLE_CACHE
                        ELSE /\ crawl' = [called EXCEPT !.pc = "returned", !.ret = "",
                                                   !.outcomes = Append(@, "throttled"),
                                                   !.backoffs = Append(@, backoff)]
                             /\ _ARTICLE_CACHE' = Store(_ARTICLE_CACHE, url, "")
                ELSE /\ _LAST_FIRECRAWL_CALL' = Aged(_LAST_FIRECRAWL_CALL, sleep + d)
                     /\ fc_last' = Aged(Some(0), d)
                     /\ _LAST_GROQ_CALL' = GroqAged(_LAST_GROQ_CALL, sleep + d)
                     /\ crawl' = [called EXCEPT !.pc = "returned", !.ret = "",
                                                !.outcomes = Append(@, "error")]
                     /\ _ARTICLE_CACHE' = Store(_ARTICLE_CACHE, url, "")
  /\ fetched' = IF crawl'.pc = "returned"
                 THEN Store(fetched, Val(crawl.arg), crawl'.ret) ELSE fetched
  /\ UNCHANGED <<_DRIC_CACHE, ask, n_crawl, n_ask, answered>>
  /\ UNCHANGED NotServices

(***************************************************************************)
(* _ask_dric                                                               *)
(***************************************************************************)
\* _ask_dric without its first test
NeverEmptyText(text) == FALSE

\* "if not text", line 205
IsEmptyText(text) == text = ""

\* line 209
DricCacheHit(cache, text) == Digest(text) \in DOMAIN cache

\* the default answer returned without being cached
DefaultAnswerNotCached(cache, text) == cache

\* line 243: the default answer is cached when the loop ends without one
CacheDefaultAnswer(cache, text) == Store(cache, Digest(text), "NO")

\* lines 205-212: the empty text, then the cache lookup
AskEnter(text) ==
  /\ crawl.pc # "loop" /\ ask.pc # "loop"
  /\ n_ask' = n_ask + 1
  /\ ask' = IF IsEmptyText(text)
            THEN [IdleFrame EXCEPT !.pc = "returned", !.arg = Some(text), !.ret = "NO"]
            ELSE IF DricCacheHit(_DRIC_CACHE, text)
            THEN [IdleFrame EXCEPT !.pc = "returned", !.arg = Some(text),
                                   !.ret = _DRIC_CACHE[Digest(text)]]
            ELSE [IdleFrame EXCEPT !.pc = "loop", !.arg = Some(text), !.attempt = 1]
  /\ answered' = IF ask'.pc = "returned" THEN Store(answered, text, ask'.ret) ELSE answered
  /\ UNCHANGED <<_ARTICLE_CACHE, _DRIC_CACHE, _LAST_FIRECRAWL_CALL, _LAST_GROQ_CALL,
                 crawl, n_crawl, fetched, fc_last>>

\* one attempt of the loop of lines 214-241, with lines 243-244 when it is the
\* last: the rate-limit sleep, _LAST_GROQ_CALL set, the call, then the answer
\* cached and returned, or the backoff sleep, or the break
AskAttempt ==
  /\ ask.pc = "loop"
  /\ LET text == Val(ask.arg)
         sleep == RateLimitSleep(_LAST_GROQ_CALL, _GROQ_MIN_INTERVAL)
         backoff == GroqBackoff(ask.attempt)
         called == [ask EXCEPT !.sleeps = Append(@, sleep)]
     IN  \E d \in Latencies :
           \/ \E content \in ModelReplies :
                /\ _DRIC_CACHE' = Store(_DRIC_CACHE, Digest(text), ParseAnswer(content))
                /\ ask' = [called EXCEPT !.pc = "returned", !.ret = ParseAnswer(content),
                                         !.outcomes = Append(@, "ok"),
                                         !.got = Some(content)]
                /\ _LAST_GROQ_CALL' = GroqAged(Some(0), d)
                /\ _LAST_FIRECRAWL_CALL' = Aged(_LAST_FIRECRAWL_CALL, sleep + d)
                /\ fc_last' = Aged(fc_last, sleep + d)
           \/ \E exc \in ServiceErrors :
                IF IsThrottling(exc)
                THEN /\ _LAST_GROQ_CALL' = GroqAged(Some(0), d + backoff)
                     /\ _LAST_FIRECRAWL_CALL' = Aged(_LAST_FIRECRAWL_CALL, sleep + d + backoff)
                     /\ fc_last' = Aged(fc_last, sleep + d + backoff)
                     /\ IF ask.attempt < AskMaxRetries
                        THEN /\ ask' = [called EXCEPT !.attempt = @ + 1,
                                                 !.outcomes = Append(@, "throttled"),
                                                 !.backoffs = Append(@, backoff)]
                             /\ UNCHANGED _DRIC_CACHE
                        ELSE /\ ask' = [called EXCEPT !.pc = "returned", !.ret = "NO",
                                                 !.outcomes = Append(@, "throttled"),
                                                 !.backoffs = Append(@, backoff)]
                             /\ _DRIC_CACHE' = CacheDefaultAnswer(_DRIC_CACHE, text)
                ELSE /\ _LAST_GROQ_CALL' = GroqAged(Some(0), d)
                     /\ _LAST_FIRECRAWL_CALL' = Aged(_LAST_FIRECRAWL_CALL, sleep + d)
                     /\ fc_last' = Aged(fc_last, sleep + d)
                     /\ ask' = [called EXCEPT !.pc = "returned", !.ret = "NO",
                                              !.outcomes = Append(@, "error")]
                     /\ _DRIC_CACHE' = CacheDefaultAnswer(_DRIC_CACHE, text)
  /\ answered' = IF ask'.pc = "returned"
                  THEN Store(answered, Val(ask.arg), ask'.ret) ELSE answered
  /\ UNCHANGED <<_ARTICLE_CACHE, crawl, n_crawl, n_ask, fetched>>
  /\ UNCHANGED NotServices

(***************************************************************************)
(* The two functions called directly, any number of times up to MaxCalls,  *)
(* on any URL and any text.                                                *)
(***************************************************************************)
MaxCalls == 3

ArticleUrls == {PublisherPage, PublisherPdf}

ArticleTexts == {"", "article one", "article two"}

CallCrawl ==
  /\ n_crawl + n_ask < MaxCalls
  /\ \E url \in ArticleUrls : CrawlEnter(url)
  /\ UNCHANGED NotServices

CallAsk ==
  /\ n_crawl + n_ask < MaxCalls
  /\ \E text \in ArticleTexts : AskEnter(text)
  /\ UNCHANGED NotServices

NextServices ==
  \/ CallCrawl
  \/ CrawlAttempt
  \/ CallAsk
  \/ AskAttempt

ServicesInit ==
  /\ _ARTICLE_CACHE = <<>>
  /\ _DRIC_CACHE = <<>>
  /\ _LAST_FIRECRAWL_CALL = None
  /\ fc_last = None
  /\ _LAST_GROQ_CALL = None
  /\ crawl = IdleFrame
  /\ ask = IdleFrame
  /\ n_crawl = 0
  /\ n_ask = 0
  /\ fetched = <<>>
  /\ answered = <<>>

(***************************************************************************)
(* _extract_article_url                                                    *)
(***************************************************************************)
ScholarCitation == [http |-> TRUE, host |-> "scholar.google.com", path |-> "/citations"]
RelativeHref == [http |-> FALSE, host |-> "", path |-> "/citations"]
EmptyHref == [http |-> FALSE, host |-> "", path |-> ""]
HandleLink == [http |-> TRUE, host |-> "ir.ucc.edu.gh", path |-> "/xmlui/handle/1"]
RepoFileRooted == [http |-> FALSE, host |-> "", path |-> "/bitstream/1/file.pdf"]
RepoFileBare == [http |-> FALSE, host |-> "", path |-> "file.pdf"]

\* "if link:" fails for None and for the empty string
IsFalsy(href) == href = None \/ Val(href) = EmptyHref

\* link.startswith("http")
StartsWithHttp(link) == link.http

\* "scholar.google" in urlparse(link).netloc
OnScholar(link) == link.host = "scholar.google.com"

\* "ir.ucc.edu.gh/xmlui/handle" in table_link
IsRepositoryHandle(link) == link.host = "ir.ucc.edu.gh" /\ link.path = "/xmlui/handle/1"

\* repo_file.startswith("/")
StartsWithSlash(link) == ~link.http /\ link.path \in {"/citations", "/bitstream/1/file.pdf"}

\* urljoin(base, rel) for a rooted relative link
UrlJoin(base, rel) == [http |-> base.http, host |-> base.host, path |-> rel.path]

\* what the pages show: whether each navigation succeeds, and the href each
\* lookup yields (None when the lookup raises or the attribute is missing)
PageFacts ==
  [goto_ok : BOOLEAN,
   title_href : {None, Some(EmptyHref), Some(RelativeHref), Some(ScholarCitation),
                 Some(PublisherPage), Some(PublisherPdf)},
   table_link : {None, Some(ScholarCitation), Some(PublisherPage), Some(HandleLink)},
   repo_goto_ok : BOOLEAN,
   repo_file : {None, Some(RepoFileRooted), Some(RepoFileBare), Some(PublisherPdf)}]

\* lines 65-135: None or Some(link)
_extract_article_url(facts) ==
  IF ~facts.goto_ok THEN None
  ELSE IF /\ ~IsFalsy(facts.title_href)
          /\ StartsWithHttp(Val(facts.title_href))
          /\ ~OnScholar(Val(facts.title_href))
  THEN facts.title_href
  ELSE IF IsFalsy(facts.table_link) THEN None
  ELSE IF ~IsRepositoryHandle(Val(facts.table_link))
  THEN (IF ~OnScholar(Val(facts.table_link)) THEN facts.table_link ELSE None)
  ELSE IF ~facts.repo_goto_ok THEN None
  ELSE IF ~IsFalsy(facts.repo_file)
  THEN (IF StartsWithSlash(Val(facts.repo_file))
        THEN Some(UrlJoin(Val(facts.table_link), Val(facts.repo_file)))
        ELSE facts.repo_file)
  ELSE None

\* every value _extract_article_url can return
ResolverOutcomes == {_extract_article_url(facts) : facts \in PageFacts}

(***************************************************************************)
(* _extract_article_url, one await at a time.                              *)
(***************************************************************************)
\* what one call meets: the pages' facts, whether ctx.new_page() and
\* page.close() succeed
ResolveEnvs == [facts : PageFacts, new_page_ok : BOOLEAN, close_ok : BOOLEAN]

\* a finally block that closes nothing
NeedsCloseNever(pg) == FALSE

\* "if page", line 138
NeedsClose(pg) == pg # "none"

\* the return statement: the value is kept while the finally block runs
ResolveReturn(value) ==
  /\ r_ret' = value
  /\ rpc' = "finally"

\* lines 65-68: the page is opened; a failure is caught at line 133
ResolveOpen ==
  /\ rpc = "start"
  /\ IF r_env.new_page_ok
     THEN /\ r_page' = "open"
          /\ rpc' = "goto"
          /\ UNCHANGED r_ret
     ELSE /\ ResolveReturn(None)
          /\ UNCHANGED r_page
  /\ UNCHANGED <<r_env, r_link, r_table_link, r_repo_file, r_closes, r_raised>>
  /\ UNCHANGED NotResolve

\* line 69: the citation page is loaded; a failure is caught at line 133
ResolveGoto ==
  /\ rpc = "goto"
  /\ IF r_env.facts.goto_ok
     THEN rpc' = "title" /\ UNCHANGED r_ret
     ELSE ResolveReturn(None)
  /\ UNCHANGED <<r_env, r_page, r_link, r_table_link, r_repo_file, r_closes, r_raised>>
  /\ UNCHANGED NotResolve

\* lines 71-87: the href of the title
ResolveTitle ==
  /\ rpc = "title"
  /\ r_link' = r_env.facts.title_href
  /\ IF /\ ~IsFalsy(r_link')
        /\ StartsWithHttp(Val(r_link'))
        /\ ~OnScholar(Val(r_link'))
     THEN ResolveReturn(r_link')
     ELSE rpc' = "table" /\ UNCHANGED r_ret
  /\ UNCHANGED <<r_env, r_page, r_table_link, r_repo_file, r_closes, r_raised>>
  /\ UNCHANGED NotResolve

\* lines 90-110: the link of the citation table
ResolveTable ==
  /\ rpc = "table"
  /\ r_table_link' = r_env.facts.table_link
  /\ IF IsFalsy(r_table_link') THEN ResolveReturn(None)
     ELSE IF ~IsRepositoryHandle(Val(r_table_link'))
     THEN ResolveReturn(IF ~OnScholar(Val(r_table_link')) THEN r_table_link' ELSE None)
     ELSE rpc' = "repo_goto" /\ UNCHANGED r_ret
  /\ UNCHANGED <<r_env, r_page, r_link, r_repo_file, r_closes, r_raised>>
  /\ UNCHANGED NotResolve

\* lines 113-115: the repository page is loaded; a failure is caught at
\* line 128
ResolveRepoGoto ==
  /\ rpc = "repo_goto"
  /\ IF r_env.facts.repo_goto_ok
     THEN rpc' = "repo_file" /\ UNCHANGED r_ret
     ELSE ResolveReturn(None)
  /\ UNCHANGED <<r_env, r_page, r_link, r_table_link, r_repo_file, r_closes, r_raised>>
  /\ UNCHANGED NotResolve

\* lines 117-131: the file link of the repository page
ResolveRepoFile ==
  /\ rpc = "repo_file"
  /\ r_repo_file' = r_env.facts.repo_file
  /\ IF ~IsFalsy(r_repo_file')
     THEN ResolveReturn(IF StartsWithSlash(Val(r_repo_file'))
                        THEN Some(UrlJoin(Val(r_table_link), Val(r_repo_file')))
                        ELSE r_repo_file')
     ELSE ResolveReturn(None)
  /\ UNCHANGED <<r_env, r_page, r_link, r_table_link, r_closes, r_raised>>
  /\ UNCHANGED NotResolve

\* lines 137-142: the page, when there is one, is closed; page.close() raises
\* when the page is gone already, and the exception is dropped
ResolveFinally ==
  /\ rpc = "finally"
  /\ IF NeedsClose(r_page)
     THEN /\ r_closes' = r_closes + 1
          /\ r_page' = IF r_env.close_ok THEN "closed" ELSE "gone"
     ELSE UNCHANGED <<r_closes, r_page>>
  /\ rpc' = "returned"
  /\ UNCHANGED <<r_env, r_link, r_table_link, r_repo_file, r_ret, r_raised>>
  /\ UNCHANGED NotResolve

NextResolve ==
  \/ ResolveOpen
  \/ ResolveGoto
  \/ ResolveTitle
  \/ ResolveTable
  \/ ResolveRepoGoto
  \/ ResolveRepoFile
  \/ ResolveFinally

ResolveRest ==
  /\ r_page = "none"
  /\ r_link = None
  /\ r_table_link = None
  /\ r_repo_file = None
  /\ r_ret = None
  /\ r_closes = 0
  /\ r_raised = FALSE

ResolveIdle ==
  /\ r_env = [facts |-> CHOOSE f \in PageFacts : ~f.goto_ok /\ f.title_href = None
                          /\ f.table_link = None /\ ~f.repo_goto_ok /\ f.repo_file = None,
              new_page_ok |-> FALSE, close_ok |-> FALSE]
  /\ rpc = "idle"
  /\ ResolveRest

ResolveInit ==
  /\ r_env \in ResolveEnvs
  /\ rpc = "start"
  /\ ResolveRest

(***************************************************************************)
(* _process_row and process_period_async                                   *)
(***************************************************************************)
\* "if not article_url", line 254
Unresolved(url) == url = None

\* a test that takes every text for non-empty
HasTextAlways(text) == TRUE

\* "if article_text", line 270
HasText(text) == text # ""

\* an exception leaves process_period_async: the "async with" block stops the
\* Playwright driver on the way out
PipelineRaise(exc) ==
  /\ run_error' = Some(exc)
  /\ ppc' = "raised"
  /\ pw' = IF pw = "started" THEN "stopped" ELSE pw
  /\ UNCHANGED <<raw_file, df_in, row_idx, article_url, article_text, dric_results,
                 browser, ctx, out_file, row_mark, row_log>>

\* lines 277-285 and 313 (or 255-262 for an unresolved row): the log line
\* that slices row["title"], then the record returned and appended to results
EmitRecord(url, text, dric) ==
  IF df_in[row_idx].title_is_str
  THEN /\ dric_results' = Append(dric_results, [row |-> row_idx, dric |-> dric])
       /\ row_log' = Append(row_log,
            [url |-> url, text |-> text, dric |-> dric,
             crawls |-> n_crawl - row_mark.n_crawl, asks |-> n_ask - row_mark.n_ask,
             label |-> IF text # None /\ Val(text) \in DOMAIN answered
                       THEN Some(answered[Val(text)]) ELSE None])
       /\ row_mark' = [n_crawl |-> n_crawl, n_ask |-> n_ask]
       /\ row_idx' = row_idx + 1
       /\ article_url' = None
       /\ article_text' = None
       /\ ppc' = "rows"
       /\ UNCHANGED <<raw_file, df_in, pw, browser, ctx, out_file, run_error>>
  ELSE PipelineRaise("TypeError")

\* the time other work takes: every timestamp grows older
TimePasses(d) ==
  /\ _LAST_FIRECRAWL_CALL' = Aged(_LAST_FIRECRAWL_CALL, d)
  /\ fc_last' = Aged(fc_last, d)
  /\ _LAST_GROQ_CALL' = GroqAged(_LAST_GROQ_CALL, d)

\* the driver and the browser started before the input file is looked up
DricStartAfterLaunch ==
  /\ ppc = "start"
  /\ browser' = "open"
  /\ ctx' = "open"
  /\ IF raw_file.state = "missing"
     THEN /\ run_error' = Some("FileNotFoundError")
          /\ ppc' = "raised"
          /\ pw' = "stopped"
          /\ UNCHANGED df_in
     ELSE /\ df_in' = raw_file.rows
          /\ ppc' = "launch"
          /\ pw' = "started"
          /\ UNCHANGED run_error
  /\ UNCHANGED <<raw_file, row_idx, article_url, article_text, dric_results,
                 out_file, row_mark, row_log>>
  /\ UNCHANGED <<navigated, gvars, NotPipeline>>

\* lines 289-299: the input file is looked up and read
DricStart ==
  /\ ppc = "start"
  /\ IF raw_file.state = "missing" THEN PipelineRaise("FileNotFoundError")
     ELSE IF raw_file.state = "unreadable" THEN PipelineRaise("ParserError")
     ELSE /\ df_in' = raw_file.rows
          /\ ppc' = "launch"
          /\ UNCHANGED <<raw_file, row_idx, article_url, article_text, dric_results,
                         pw, browser, ctx, out_file, run_error, row_mark, row_log>>
  /\ UNCHANGED <<navigated, gvars, NotPipeline>>

\* lines 301-310: the driver, the browser and the context are started
DricLaunch ==
  /\ ppc = "launch"
  /\ pw' = "started"
  /\ browser' = "open"
  /\ ctx' = "open"
  /\ dric_results' = <<>>
  /\ row_idx' = 1
  /\ ppc' = "rows"
  /\ UNCHANGED <<raw_file, df_in, article_url, article_text, out_file, run_error,
                 navigated, row_mark, row_log>>
  /\ UNCHANGED <<gvars, NotPipeline>>

\* lines 311-312 and 249-262: the next row; its link is resolved and, when
\* there is none, the "NF" record is returned
RowResolve ==
  /\ ppc = "rows"
  /\ row_idx <= Len(df_in)
  /\ navigated' = TRUE
  /\ \E url \in ResolverOutcomes, d \in Latencies :
           /\ TimePasses(d)
           /\ IF Unresolved(url)
              THEN EmitRecord(None, None, "NF")
              ELSE /\ article_url' = url
                   /\ ppc' = "resolved"
                   /\ UNCHANGED <<raw_file, df_in, row_idx, article_text, dric_results,
                                  pw, browser, ctx, out_file, run_error, row_mark, row_log>>
  /\ UNCHANGED <<_ARTICLE_CACHE, _DRIC_CACHE, crawl, ask, n_crawl, n_ask, fetched, answered>>
  /\ UNCHANGED NotPipeline

\* the frames of _crawl_article and _ask_dric are gone once _process_row has
\* returned
FramesDropped ==
  /\ crawl' = IdleFrame
  /\ ask' = IdleFrame
  /\ UNCHANGED <<_ARTICLE_CACHE, _DRIC_CACHE, _LAST_FIRECRAWL_CALL, _LAST_GROQ_CALL,
                 n_crawl, n_ask, fetched, answered, fc_last>>

\* lines 264-268: _crawl_article is started on a worker thread
RowFetch ==
  /\ ppc = "resolved"
  /\ CrawlEnter(Val(article_url))
  /\ ppc' = "fetching"
  /\ UNCHANGED <<raw_file, df_in, row_idx, article_url, article_text, dric_results,
                 pw, browser, ctx, out_file, run_error, navigated, row_mark, row_log>>
  /\ UNCHANGED NotPipeline

\* a worker-thread call that is not waited for
AwaitSkipped(frame) == TRUE

\* "await asyncio.to_thread(...)", lines 268 and 272: _process_row goes on
\* when the call has returned
Awaited(frame) == frame.pc = "returned"

\* lines 268-275: the text comes back; _ask_dric is started on it when it is
\* not empty, and "NF" is the answer when it is
RowFetched ==
  /\ ppc = "fetching"
  /\ Awaited(crawl)
  /\ IF HasText(crawl.ret)
     THEN /\ AskEnter(crawl.ret)
          /\ article_text' = Some(crawl.ret)
          /\ ppc' = "classifying"
          /\ UNCHANGED <<raw_file, df_in, row_idx, article_url, dric_results,
                         pw, browser, ctx, out_file, run_error, row_mark, row_log>>
     ELSE /\ EmitRecord(article_url, Some(crawl.ret), "NF")
          /\ FramesDropped
  /\ UNCHANGED navigated
  /\ UNCHANGED NotPipeline

\* lines 272 and 277-285: the label comes back and is the row's answer
RowClassified ==
  /\ ppc = "classifying"
  /\ Awaited(ask)
  /\ EmitRecord(article_url, article_text, ask.ret)
  /\ FramesDropped
  /\ UNCHANGED <<navigated, NotPipeline>>

\* lines 315-316, after the last row, and the end of the "async with" block
DricClose ==
  /\ ppc = "rows"
  /\ row_idx > Len(df_in)
  /\ ctx' = "closed"
  /\ browser' = "closed"
  /\ pw' = "stopped"
  /\ ppc' = "save"
  /\ UNCHANGED <<raw_file, df_in, row_idx, article_url, article_text, dric_results,
                 out_file, run_error, navigated, row_mark, row_log>>
  /\ UNCHANGED <<gvars, NotPipeline>>

\* lines 318-322: the records, without scholar_link, are written
DricSave ==
  /\ ppc = "save"
  /\ out_file' = Some(dric_results)
  /\ ppc' = "done"
  /\ UNCHANGED <<raw_file, df_in, row_idx, article_url, article_text, dric_results,
                 pw, browser, ctx, run_error, navigated, row_mark, row_log>>
  /\ UNCHANGED <<gvars, NotPipeline>>

Next ==
  \/ DricStart
  \/ DricLaunch
  \/ RowResolve
  \/ RowFetch
  \/ CrawlAttempt
  \/ RowFetched
  \/ AskAttempt
  \/ RowClassified
  \/ DricClose
  \/ DricSave

\* the records of raw_publications.csv a run is given
MaxRows == 2

RowsIn == UNION {[1..n -> [title_is_str : BOOLEAN]] : n \in 0..MaxRows}

NoFile == [state |-> "missing", rows |-> <<>>]

RawFiles ==
  {NoFile, [state |-> "unreadable", rows |-> <<>>]}
  \cup {[state |-> "ok", rows |-> rows] : rows \in RowsIn}

PipelineIdle ==
  /\ raw_file = NoFile
  /\ ppc = "idle"
  /\ df_in = <<>>
  /\ row_idx = 0
  /\ article_url = None
  /\ article_text = None
  /\ dric_results = <<>>
  /\ pw = "none"
  /\ browser = "none"
  /\ ctx = "none"
  /\ out_file = None
  /\ run_error = None
  /\ navigated = FALSE
  /\ row_mark = [n_crawl |-> 0, n_ask |-> 0]
  /\ row_log = <<>>

PipelineInit ==
  /\ raw_file \in RawFiles
  /\ ppc = "start"
  /\ df_in = <<>>
  /\ row_idx = 0
  /\ article_url = None
  /\ article_text = None
  /\ dric_results = <<>>
  /\ pw = "none"
  /\ browser = "none"
  /\ ctx = "none"
  /\ out_file = None
  /\ run_error = None
  /\ navigated = FALSE
  /\ row_mark = [n_crawl |-> 0, n_ask |-> 0]
  /\ row_log = <<>>

(***************************************************************************)
(* fetch_period (fetch_ucc_scholar.py)                                     *)
(***************************************************************************)
\* years_in_period, line 200
YearsInPeriod(p) ==
  LET found == FindAll4Digits(p)
  IN  [i \in 1..Len(found) |-> Int4(found[i])]

\* "if not years_in_period", line 201
NoYearFound(years) == years = <<>>

\* the year bounds taken in the order the period string gives them
YearBoundsAsWritten(years) == <<years[1], years[Len(years)]>>

\* lines 203-206: (year_min, year_max)
YearBounds(years) ==
  IF Len(years) = 1 THEN <<years[1], years[1]>>
  ELSE <<CHOOSE y \in Range(years) : \A z \in Range(years) : y <= z,
         CHOOSE y \in Range(years) : \A z \in Range(years) : y >= z>>

\* lines 225-233: the rows whose year parses and lies within the bounds
RECURSIVE FilterByYear(_, _, _)
FilterByYear(rows, ymin, ymax) ==
  IF rows = <<>> THEN <<>>
  ELSE LET pub_year == ParseYear(Head(rows).year_text)
           rest == FilterByYear(Tail(rows), ymin, ymax)
       IN  IF pub_year # None /\ ymin <= Val(pub_year) /\ Val(pub_year) <= ymax
           THEN <<[id |-> Head(rows).id, year |-> Val(pub_year)]>> \o rest
           ELSE rest

\* a save that drops no row
KeepAllRows(rows, kept) == rows

\* DataFrame.drop_duplicates(): the first occurrence of each row is kept
RECURSIVE DropDuplicates(_, _)
DropDuplicates(rows, kept) ==
  IF rows = <<>> THEN kept
  ELSE DropDuplicates(Tail(rows),
                      IF Head(rows) \in Range(kept) THEN kept ELSE Append(kept, Head(rows)))

\* an exception leaves fetch_period: the "async with" block, when entered,
\* stops the Playwright driver on the way out
FetchRaise(exc) ==
  /\ fp_error' = Some(exc)
  /\ fpc' = "raised"
  /\ fp_pw' = IF fp_pw = "started" THEN "stopped" ELSE fp_pw

\* lines 179-206: the awardee file is looked up and read, the output
\* directory made, the period parsed
FetchSetup ==
  /\ fpc = "start"
  /\ IF awardee_file.state = "missing"
     THEN /\ FetchRaise("FileNotFoundError")
          /\ UNCHANGED <<awardees, out_dir_made, years_in_period, fp_year_min, fp_year_max>>
     ELSE IF awardee_file.state = "unreadable"
     THEN /\ FetchRaise("ParserError")
          /\ UNCHANGED <<awardees, out_dir_made, years_in_period, fp_year_min, fp_year_max>>
     ELSE /\ awardees' = awardee_file.names
          /\ out_dir_made' = TRUE
          /\ years_in_period' = YearsInPeriod(period)
          /\ IF NoYearFound(years_in_period')
             THEN /\ FetchRaise("ValueError")
                  /\ UNCHANGED <<fp_year_min, fp_year_max>>
             ELSE /\ fp_year_min' = Some(YearBounds(years_in_period')[1])
                  /\ fp_year_max' = Some(YearBounds(years_in_period')[2])
                  /\ fpc' = "launch"
                  /\ UNCHANGED <<fp_error, fp_pw>>
  /\ UNCHANGED <<period, awardee_file, fp_browser, a_idx, fp_queries, q_idx, collected,
                 raw_publications, fp_navigated, fp_searches>>
  /\ UNCHANGED NotFetch

\* lines 208-210: the driver, the browser and the page are started
FetchLaunch ==
  /\ fpc = "launch"
  /\ fp_pw' = "started"
  /\ fp_browser' = "open"
  /\ fpc' = "goto"
  /\ UNCHANGED <<period, awardee_file, awardees, out_dir_made, years_in_period,
                 fp_year_min, fp_year_max, a_idx, fp_queries, q_idx, collected,
                 raw_publications, fp_error, fp_navigated, fp_searches>>
  /\ UNCHANGED NotFetch

\* lines 211-213: the portal is opened and its search box awaited; a timeout
\* of either leaves fetch_period
FetchGoto ==
  /\ fpc = "goto"
  /\ fp_navigated' = TRUE
  /\ \/ /\ fpc' = "search"
        /\ a_idx' = 1
        /\ q_idx' = 1
        /\ UNCHANGED <<fp_error, fp_pw>>
     \/ /\ FetchRaise("TimeoutError")
        /\ UNCHANGED <<a_idx, q_idx>>
  /\ UNCHANGED <<period, awardee_file, awardees, out_dir_made, years_in_period,
                 fp_year_min, fp_year_max, fp_browser, fp_queries, collected,
                 raw_publications, fp_searches>>
  /\ UNCHANGED NotFetch

\* the rows scrape_for_name can hand back for one query
MaxReturned == 1

RowPool ==
  {[id |-> 1, year_text |-> YearText(2016)], [id |-> 2, year_text |-> YearText(2018)],
   [id |-> 3, year_text |-> NoYearText]}

ScrapeReturns == UNION {[1..n -> RowPool] : n \in 0..MaxReturned}

\* lines 218-233: the next query of the next awardee (build_queries when the
\* awardee is new), scrape_for_name on it, its rows filtered into collected;
\* an exception of scrape_for_name leaves fetch_period
FetchQuery ==
  /\ fpc = "search"
  /\ a_idx <= Len(awardees)
  /\ \E qs \in (IF fp_queries = None THEN build_queries(awardees[a_idx])
                ELSE {Val(fp_queries)}) :
       /\ fp_searches' = Append(fp_searches, qs[q_idx])
       /\ \/ /\ \E rows \in ScrapeReturns :
                  collected' = collected \o FilterByYear(rows, Val(fp_year_min), Val(fp_year_max))
             /\ IF q_idx < Len(qs)
                THEN /\ q_idx' = q_idx + 1
                     /\ fp_queries' = Some(qs)
                     /\ UNCHANGED a_idx
                ELSE /\ q_idx' = 1
                     /\ fp_queries' = None
                     /\ a_idx' = a_idx + 1
             /\ UNCHANGED <<fpc, fp_error, fp_pw>>
          \/ /\ FetchRaise("PlaywrightError")
             /\ UNCHANGED <<collected, q_idx, fp_queries, a_idx>>
  /\ UNCHANGED <<period, awardee_file, awardees, out_dir_made, years_in_period,
                 fp_year_min, fp_year_max, fp_browser, raw_publications, fp_navigated>>
  /\ UNCHANGED NotFetch

\* line 235, after the last awardee, and the end of the "async with" block
FetchClose ==
  /\ fpc = "search"
  /\ a_idx > Len(awardees)
  /\ fp_browser' = "closed"
  /\ fp_pw' = "stopped"
  /\ fpc' = "save"
  /\ UNCHANGED <<period, awardee_file, awardees, out_dir_made, years_in_period,
                 fp_year_min, fp_year_max, a_idx, fp_queries, q_idx, collected,
                 raw_publications, fp_error, fp_navigated, fp_searches>>
  /\ UNCHANGED NotFetch

\* lines 237-247: exact duplicates dropped, the rest written
FetchSave ==
  /\ fpc = "save"
  /\ raw_publications' = Some(DropDuplicates(collected, <<>>))
  /\ fpc' = "done"
  /\ UNCHANGED <<period, awardee_file, awardees, out_dir_made, years_in_period,
                 fp_year_min, fp_year_max, fp_pw, fp_browser, a_idx, fp_queries, q_idx,
                 collected, fp_error, fp_navigated, fp_searches>>
  /\ UNCHANGED NotFetch

NextFetch ==
  \/ FetchSetup
  \/ FetchLaunch
  \/ FetchGoto
  \/ FetchQuery
  \/ FetchClose
  \/ FetchSave

\* the period strings and the awardee files a run is given
Periods ==
  {YearText(2016) \o <<"-">> \o YearText(2017),
   YearText(2020),
   YearText(2017) \o <<"/">> \o YearText(2016),
   YearText(2018) \o YearText(2016) \o <<"7">>,
   <<"n", "o", "-", "y", "e", "a", "r">>,
   <<"2", "0", "1", "-", "2", "0", "2">>,
   <<>>}

MaxAwardees == 2

AwardeeNames == {Plato}

AwardeeFiles ==
  {[state |-> "missing", names |-> <<>>], [state |-> "unreadable", names |-> <<>>]}
  \cup {[state |-> "ok", names |-> names] :
          names \in UNION {[1..n -> AwardeeNames] : n \in 0..MaxAwardees}}

FetchRest ==
  /\ awardees = <<>>
  /\ out_dir_made = FALSE
  /\ years_in_period = <<>>
  /\ fp_year_min = None
  /\ fp_year_max = None
  /\ fp_pw = "none"
  /\ fp_browser = "none"
  /\ a_idx = 0
  /\ fp_queries = None
  /\ q_idx = 0
  /\ collected = <<>>
  /\ raw_publications = None
  /\ fp_error = None
  /\ fp_navigated = FALSE
  /\ fp_searches = <<>>

FetchIdle ==
  /\ period = <<>>
  /\ awardee_file = [state |-> "missing", names |-> <<>>]
  /\ fpc = "idle"
  /\ FetchRest

FetchInit ==
  /\ period \in Periods
  /\ awardee_file \in AwardeeFiles
  /\ fpc = "start"
  /\ FetchRest

\* one run of either program
NextRuns ==
  \/ FetchSetup
  \/ FetchLaunch
  \/ FetchGoto
  \/ FetchQuery
  \/ FetchClose
  \/ FetchSave
  \/ DricStart
  \/ DricLaunch
  \/ RowResolve
  \/ RowFetch
  \/ CrawlAttempt
  \/ RowFetched
  \/ AskAttempt
  \/ RowClassified
  \/ DricClose
  \/ DricSave

(***************************************************************************)
(* Specifications.                                                         *)
(***************************************************************************)
InitPipeline == QueriesIdle /\ ScrapeIdle /\ ServicesInit /\ PipelineInit /\ FetchIdle /\ ResolveIdle

Spec == InitPipeline /\ [][Next]_vars

InitFetch == QueriesIdle /\ ScrapeIdle /\ ServicesInit /\ PipelineIdle /\ FetchInit /\ ResolveIdle

SpecFetch == InitFetch /\ [][NextFetch]_vars

InitRuns ==
  /\ QueriesIdle
  /\ ScrapeIdle
  /\ ServicesInit
  /\ ResolveIdle
  /\ \/ PipelineInit /\ FetchIdle
     \/ PipelineIdle /\ FetchInit

SpecRuns == InitRuns /\ [][NextRuns]_vars

InitResolve ==
  QueriesIdle /\ ScrapeIdle /\ ServicesInit /\ PipelineIdle /\ FetchIdle /\ ResolveInit

SpecResolve == InitResolve /\ [][NextResolve]_vars

InitServices == QueriesIdle /\ ScrapeIdle /\ ServicesInit /\ PipelineIdle /\ FetchIdle /\ ResolveIdle

SpecServices == InitServices /\ [][NextServices]_vars

InitQueries == QueriesInit /\ ScrapeIdle /\ ServicesInit /\ PipelineIdle /\ FetchIdle /\ ResolveIdle

InitScrape == QueriesIdle /\ ScrapeInit /\ ServicesInit /\ PipelineIdle /\ FetchIdle /\ ResolveIdle

SpecScrape == InitScrape /\ [][NextScrape]_vars

SpecQueries == InitQueries /\ [][NextQueries]_vars

(***************************************************************************)
(* Properties.                                                             *)
(***************************************************************************)
NoDuplicates(s) == \A i, j \in 1..Len(s) : s[i] = s[j] => i = j

FirstIndex(s, x) == CHOOSE i \in 1..Len(s) : s[i] = x /\ \A k \in 1..(i - 1) : s[k] # x

\* r is e with the later duplicates removed
IsDedupOf(r, e) ==
  /\ NoDuplicates(r)
  /\ Range(r) = Range(e)
  /\ \A i, j \in 1..Len(r) : i < j => FirstIndex(e, r[i]) < FirstIndex(e, r[j])

\* the five kinds of variant in the order the specification gives them
ClaimedVariants(name) ==
  LET toks == Split(name)
      n == Len(toks)
      F == toks[1]
      L == toks[n]
      midInitials == [i \in 1..(n - 2) |-> toks[i + 1][1]]
  IN  <<Strip(name)>>
      \o <<<<F[1], " ">> \o L>>
      \o [i \in 1..(n - 2) |-> <<midInitials[i], " ">> \o L]
      \o <<<<F[1]>> \o midInitials \o <<" ">> \o L>>
      \o <<F \o <<" ">> \o midInitials \o <<L[1]>>>>

KwameAsanteBoateng == Kwame \o <<" ">> \o Asante \o <<" ">> \o Boateng

KwameAsanteBoatengVariants ==
  <<KwameAsanteBoateng,
    <<"K", " ">> \o Boateng,
    <<"A", " ">> \o Boateng,
    <<"K", "A", " ">> \o Boateng,
    Kwame \o <<" ", "A", "B">>>>

\* C1 (as claimed): for a table sorted by year descending and no cap,
\* scrape_for_name returns exactly the rows before the first row whose year is
\* below year_min, in index order, however many rows each scroll renders.
ParsedYears(tbl) == [i \in 1..Len(tbl) |-> ParseYear(tbl[i].year_text)]

SortedDescending(tbl) ==
  /\ \A i \in 1..Len(tbl) : ParsedYears(tbl)[i] # None
  /\ \A i \in 1..(Len(tbl) - 1) : Val(ParsedYears(tbl)[i]) >= Val(ParsedYears(tbl)[i + 1])

RowsAboveFloor(tbl, ymin) ==
  LET below == {i \in 1..Len(tbl) : Val(ParsedYears(tbl)[i]) < ymin}
      stop == IF below = {} THEN Len(tbl) + 1
              ELSE CHOOSE i \in below : \A k \in below : i <= k
  IN  SubSeq(tbl, 1, stop - 1)

C1_ScrapeStopsAtFloor ==
  (/\ spc = "returned"
   /\ rendered > 0
   /\ ~scroll_failed
   /\ per_name_limit = None
   /\ SortedDescending(table))
  => scrape_ret = RowsAboveFloor(table, year_min)

C8_SingleTokenAlone ==
  (qpc = "returned" /\ Len(Split(q_full_name)) = 1)
  => queries = <<Split(q_full_name)[1]>>

\* C8 (amended): for a single-token name build_queries returns exactly two
\* elements, the token and then its initial, a blank and the token
\* ("Plato", "P Plato"): only the repetition of the second one as the
\* concatenated-initials variant is removed.
C8_SingleTokenTwoVariants ==
  (qpc = "returned" /\ Len(Split(q_full_name)) = 1)
  => LET tok == Split(q_full_name)[1]
     IN  queries = <<tok, <<tok[1], " ">> \o tok>>

C8_Witness ==
  /\ qpc = "returned"
  /\ q_full_name = Plato
  /\ queries = <<Plato, <<"P", " ">> \o Plato>>

\* a step that calls _crawl_article(url), and one that calls _ask_dric(text)
CrawlCalled(url) == n_crawl' = n_crawl + 1 /\ crawl'.arg = Some(url)

AskCalled(text) == n_ask' = n_ask + 1 /\ ask'.arg = Some(text)

\* C3: a call of _crawl_article on a URL that an earlier call returned for
\* (with a text or with the empty string of a failure) returns that same
\* value at once, making no call to the extraction service.
C3_RefetchHitsCache ==
  [][\A url \in DOMAIN fetched :
       CrawlCalled(url) =>
         /\ crawl'.pc = "returned"
         /\ crawl'.ret = fetched[url]
         /\ crawl'.outcomes = <<>>
         /\ _ARTICLE_CACHE' = _ARTICLE_CACHE]_vars

C3_Witness ==
  /\ crawl.pc = "returned"
  /\ n_crawl >= 2
  /\ crawl.outcomes = <<>>
  /\ crawl.ret = ""
  /\ crawl.arg = Some(PublisherPdf)

\* C4: once _ask_dric has returned for a text, a later call with the same
\* text returns the same label and makes no call to the model: the cache is
\* keyed by the content alone.
C4_SameTextOneInvocation ==
  [][\A text \in DOMAIN answered :
       AskCalled(text) =>
         /\ ask'.pc = "returned"
         /\ ask'.ret = answered[text]
         /\ ask'.outcomes = <<>>
         /\ _DRIC_CACHE' = _DRIC_CACHE]_vars

C4_Witness ==
  /\ ask.pc = "returned"
  /\ n_ask >= 2
  /\ ask.arg = Some("article one")
  /\ ask.outcomes = <<>>
  /\ ask.ret = "YES"

\* C5: _ask_dric("") returns "NO" at once, makes no call to the model and
\* leaves _DRIC_CACHE and _LAST_GROQ_CALL as they are, whatever they hold.
C5_EmptyTextIsNo ==
  [][AskCalled("") =>
       /\ ask'.pc = "returned"
       /\ ask'.ret = "NO"
       /\ ask'.outcomes = <<>>
       /\ _DRIC_CACHE' = _DRIC_CACHE
       /\ _LAST_GROQ_CALL' = _LAST_GROQ_CALL]_vars

C5_Witness ==
  /\ ask.pc = "returned"
  /\ ask.arg = Some("")
  /\ ask.ret = "NO"
  /\ _DRIC_CACHE # <<>>
  /\ _LAST_GROQ_CALL # None

\* C6: when the service throttles the first two calls and answers the third,
\* _crawl_article and _ask_dric make exactly three calls, sleep a backoff of
\* 2 s then 4 s (fetcher) and 1.5 s then 3 s (classifier) before the second
\* and the third call, and return and cache what the third call gave.
ThrottledTwice(frame) ==
  Len(frame.outcomes) >= 2 /\ frame.outcomes[1] = "throttled" /\ frame.outcomes[2] = "throttled"

ThrottledTwiceThenOk(frame) == frame.outcomes = <<"throttled", "throttled", "ok">>

C6_TwoRetriesGrowingBackoff ==
  /\ (ThrottledTwice(crawl) /\ Len(crawl.outcomes) = 2) => crawl.pc = "loop"
  /\ (ThrottledTwice(ask) /\ Len(ask.outcomes) = 2) => ask.pc = "loop"
  /\ (ThrottledTwice(crawl) /\ Len(crawl.outcomes) >= 3 /\ crawl.outcomes[3] = "ok") =>
        /\ crawl.pc = "returned"
        /\ Len(crawl.outcomes) = 3
        /\ crawl.backoffs = <<2 * TicksPerSecond, 4 * TicksPerSecond>>
        /\ crawl.ret = ExtractText(Val(crawl.got))
        /\ _ARTICLE_CACHE[Val(crawl.arg)] = crawl.ret
  /\ (ThrottledTwice(ask) /\ Len(ask.outcomes) >= 3 /\ ask.outcomes[3] = "ok") =>
        /\ ask.pc = "returned"
        /\ Len(ask.outcomes) = 3
        /\ 2 * ask.backoffs[1] = 3 * TicksPerSecond
        /\ ask.backoffs[2] = 3 * TicksPerSecond
        /\ Len(ask.backoffs) = 2
        /\ ask.ret = ParseAnswer(Val(ask.got))
        /\ _DRIC_CACHE[Digest(Val(ask.arg))] = ask.ret

C6_Witness ==
  /\ ThrottledTwiceThenOk(ask)
  /\ ask.ret = "YES"
  /\ crawl.pc = "returned"
  /\ ThrottledTwiceThenOk(crawl)
  /\ crawl.ret = "article two"

\* C2: every record _process_row emits has dric "NF" exactly when the link was
\* not resolved or the fetched text is empty, and the label _ask_dric returned
\* otherwise; _crawl_article was called for the row only when the link was
\* resolved, _ask_dric only when the text was not empty, so neither for an
\* unresolved row.
C2_NotFoundOrLabel ==
  /\ Len(dric_results) = Len(row_log)
  /\ \A i \in 1..Len(row_log) :
       LET e == row_log[i]
       IN  /\ dric_results[i].dric = e.dric
           /\ e.dric = "NF" <=> (e.url = None \/ e.text = Some(""))
           /\ e.dric # "NF" => e.label = Some(e.dric)
           /\ e.crawls = (IF e.url = None THEN 0 ELSE 1)
           /\ e.asks = (IF e.url = None \/ e.text = Some("") THEN 0 ELSE 1)

C2_Witness ==
  /\ Len(row_log) = 2
  /\ row_log[1].url = None /\ row_log[1].dric = "NF"
  /\ row_log[2].url # None /\ row_log[2].dric = "YES"

\* a period string holding four decimal digits in a row
HasYear(p) == \E i \in 1..(Len(p) - 3) : \A k \in i..(i + 3) : IsDigit(p[k])

\* once fetch_period has bound year_min and year_max they are the least and
\* the greatest of the 4-digit numbers of the period string
BoundsAreMinMax ==
  fp_year_min # None =>
    /\ fp_year_max # None
    /\ Val(fp_year_min) \in Range(YearsInPeriod(period))
    /\ Val(fp_year_max) \in Range(YearsInPeriod(period))
    /\ \A y \in Range(YearsInPeriod(period)) : Val(fp_year_min) <= y /\ y <= Val(fp_year_max)
    /\ Val(fp_year_min) <= Val(fp_year_max)
    /\ period = YearText(2016) \o <<"-">> \o YearText(2017) =>
         fp_year_min = Some(2016) /\ fp_year_max = Some(2017)
    /\ period = YearText(2017) \o <<"/">> \o YearText(2016) =>
         fp_year_min = Some(2016) /\ fp_year_max = Some(2017)
    /\ period = YearText(2020) => fp_year_min = Some(2020) /\ fp_year_max = Some(2020)

\* C9 (as claimed): year_min and year_max are the minimum and the maximum of
\* the 4-digit numbers of the period string, and a period string without one
\* makes fetch_period fail with the period parse error (ValueError).
C9_PeriodBounds ==
  /\ BoundsAreMinMax
  /\ (~HasYear(period) /\ fpc \notin {"idle", "start"}) =>
       fpc = "raised" /\ fp_error = Some("ValueError")

\* C9 (amended): year_min and year_max are the minimum and the maximum of the
\* 4-digit numbers of the period string; a period string without one makes
\* fetch_period fail, with the period parse error (ValueError) when the
\* awardee file exists and loads, and with the error of the awardee file
\* (FileNotFoundError, or the error of the load) when it does not, since the
\* file is looked up and read before the period is parsed.
C9_PeriodBoundsOnceLoaded ==
  /\ BoundsAreMinMax
  /\ (~HasYear(period) /\ fpc \notin {"idle", "start"}) =>
       /\ fpc = "raised"
       /\ fp_error = Some(IF awardee_file.state = "missing" THEN "FileNotFoundError"
                          ELSE IF awardee_file.state = "unreadable" THEN "ParserError"
                          ELSE "ValueError")

C9_Witness ==
  /\ ~HasYear(period)
  /\ period # <<>>
  /\ awardee_file.state = "ok"
  /\ fpc = "raised"
  /\ fp_error = Some("ValueError")

\* C10: a missing awardee file or a period string without a year (in
\* fetch_period) and a missing raw_publications file (in
\* process_period_async) end the run with their error while no driver and no
\* browser has been started, no page navigated to and no search made.
C10_SetupErrorsBeforeBrowser ==
  /\ (fpc # "idle" /\ (awardee_file.state = "missing" \/ ~HasYear(period))) =>
       /\ fpc \in {"start", "raised"}
       /\ fp_pw = "none" /\ fp_browser = "none"
       /\ ~fp_navigated /\ fp_searches = <<>>
  /\ fp_error \in {Some("FileNotFoundError"), Some("ValueError")} =>
       fp_pw = "none" /\ fp_browser = "none" /\ ~fp_navigated /\ fp_searches = <<>>
  /\ (ppc # "idle" /\ raw_file.state = "missing") =>
       /\ ppc \in {"start", "raised"}
       /\ pw = "none" /\ browser = "none" /\ ctx = "none"
       /\ ~navigated /\ n_crawl = 0 /\ n_ask = 0
  /\ run_error = Some("FileNotFoundError") =>
       pw = "none" /\ browser = "none" /\ ctx = "none" /\ ~navigated

C10_Witness ==
  /\ ppc = "raised"
  /\ raw_file.state = "missing"
  /\ run_error = Some("FileNotFoundError")
  /\ browser = "none"

\* C11: when _extract_article_url has returned, on whichever path, the page
\* it opened is not left open: page.close() was called on it exactly once
\* (and never when no page was opened), and the page is closed whenever that
\* call succeeded.
C11_PageClosedOnReturn ==
  /\ rpc = "returned" =>
       /\ r_page # "open"
       /\ r_page = "none" <=> ~r_env.new_page_ok
       /\ r_closes = (IF r_env.new_page_ok THEN 1 ELSE 0)
       /\ (r_env.new_page_ok /\ r_env.close_ok) => r_page = "closed"
  /\ rpc \notin {"finally", "returned", "idle"} => r_closes = 0

C11_Witness ==
  /\ rpc = "returned"
  /\ r_ret = Some(UrlJoin(HandleLink, RepoFileRooted))
  /\ r_page = "closed"
  /\ r_closes = 1

\* C12 (as claimed): the row indices scrape_for_name reads, over all its
\* scroll iterations, are 0, 1, 2, ... in this order: none is skipped and none
\* is read twice, however the rendered row count grows.
C12_RowsReadOnceInOrder ==
  \A i \in 1..Len(extracted) : extracted[i] = i - 1

\* a step in which _crawl_article calls the extraction service
CallsFirecrawl == crawl.pc = "loop" /\ Len(crawl'.sleeps) = Len(crawl.sleeps) + 1

\* C13 (as claimed): any two consecutive calls _crawl_article makes to the
\* extraction service, for the same URL or for different ones, are at least
\* _FIRECRAWL_MIN_INTERVAL (2 s) apart: when the service is called, the age of
\* the call before plus the sleep that precedes the new call reaches the
\* interval.
C13_ServiceCallsSpaced ==
  [][(CallsFirecrawl /\ fc_last # None) =>
       Val(fc_last) + crawl'.sleeps[Len(crawl'.sleeps)] >= _FIRECRAWL_MIN_INTERVAL]_vars

\* the first n rows of the table exist and none has a year below ymin
FirstRowsNotBelow(tbl, n, ymin) ==
  /\ Len(tbl) >= n
  /\ \A i \in 1..n :
       LET pub_year == ParseYear(tbl[i].year_text)
       IN  ~(pub_year # None /\ Val(pub_year) < ymin)

\* C14 (as claimed): with a cap L and a table whose first L rows are not
\* below year_min, scrape_for_name returns exactly rows 0..L-1, however many
\* rows the portal renders at first and after each scroll, and the loop is
\* not entered again once L rows are collected.
C14_CapReturnsFirstRows ==
  (/\ per_name_limit # None
   /\ rendered > 0
   /\ ~scroll_failed
   /\ FirstRowsNotBelow(table, Val(per_name_limit), year_min))
  => /\ spc = "returned" => scrape_ret = SubSeq(table, 1, Val(per_name_limit))
     /\ spc = "loop" => Len(results) < Val(per_name_limit)

\* the errors of the set-up of fetch_period, lines 179-206
SetupErrors == {"FileNotFoundError", "ParserError", "ValueError"}

\* C15 (as claimed): a navigation or element error (the portal not opening,
\* the search field or a row cell missing) never ends the run of
\* fetch_period: the only exceptions that leave it are those of its set-up.
C15_ElementErrorsNotFatal ==
  fpc = "raised" => Val(fp_error) \in SetupErrors

\* C16 (as claimed): when process_period_async or fetch_period has ended, by
\* returning or by an exception, the browser it launched has been closed
\* (browser.close() awaited), and so has the browser context of
\* process_period_async (ctx.close() awaited).
C16_BrowserClosedOnExit ==
  /\ (ppc \in {"raised", "done"} /\ browser # "none") => (ctx = "closed" /\ browser = "closed")
  /\ (fpc \in {"raised", "done"} /\ fp_browser # "none") => fp_browser = "closed"

\* urljoin(base, rel) for any link found on the page at base: an absolute
\* link is kept, a rooted one replaces the path, another one replaces the
\* last segment of the path
ResolvedAgainst(base, rel) ==
  IF StartsWithHttp(rel) THEN rel
  ELSE IF StartsWithSlash(rel) THEN UrlJoin(base, rel)
  ELSE [http |-> base.http, host |-> base.host, path |-> "/xmlui/handle/" \o rel.path]

\* the value the claim gives for one call
ClaimedArticleUrl(env) ==
  LET facts == env.facts
  IN  IF ~env.new_page_ok \/ ~facts.goto_ok THEN None
      ELSE IF /\ ~IsFalsy(facts.title_href)
              /\ StartsWithHttp(Val(facts.title_href))
              /\ ~OnScholar(Val(facts.title_href))
      THEN facts.title_href
      ELSE IF IsFalsy(facts.table_link) THEN None
      ELSE IF ~IsRepositoryHandle(Val(facts.table_link))
      THEN (IF OnScholar(Val(facts.table_link)) THEN None ELSE facts.table_link)
      ELSE IF facts.repo_goto_ok /\ ~IsFalsy(facts.repo_file)
      THEN Some(ResolvedAgainst(Val(facts.table_link), Val(facts.repo_file)))
      ELSE None

\* C17 (as claimed): _extract_article_url never raises, and returns the title
\* href when present, starting with http and not on Scholar; else None when
\* the citation-table link is absent; else, for a non-handle table link, the
\* link unless its host is the portal; else, for a repository handle, the
\* file link of the repository page, a relative one resolved against the
\* handle page URL, and None when the navigation or the lookup fails.
C17_ResolverCases ==
  rpc = "returned" => (~r_raised /\ r_ret = ClaimedArticleUrl(r_env))

\* what the cache holds for the argument of a call: None or Some(value)
CachedFor(cache, key) == IF key \in DOMAIN cache THEN Some(cache[key]) ELSE None

\* the service calls of one call of _crawl_article or _ask_dric, given the
\* number of retries the claim states, the failure value and the cache entry
\* of the argument: no exception leaves the function, at most retries calls
\* are made, every call but the last was throttled, a non-throttling error is
\* the last call, throttling throughout ends after exactly retries calls, and
\* both store the failure value in the cache and return it
FailureEnds(frame, retries, failure, cached) ==
  LET n == Len(frame.outcomes)
  IN  /\ frame.pc \in {"idle", "loop", "returned"}
      /\ n <= retries
      /\ \A i \in 1..(n - 1) : frame.outcomes[i] = "throttled"
      /\ frame.pc = "loop" => n < retries
      /\ (n > 0 /\ frame.outcomes[n] = "error") =>
           (frame.pc = "returned" /\ frame.ret = failure /\ cached = Some(failure))
      /\ (n > 0 /\ frame.outcomes[n] = "throttled" /\ frame.pc = "returned") =>
           (n = retries /\ frame.ret = failure /\ cached = Some(failure))

\* C18: _crawl_article and _ask_dric never propagate an exception of their
\* service and make a bounded number of calls of it: a non-throttling error
\* ends the loop with that call, throttling on every attempt ends after
\* exactly 3 calls (fetcher) or 4 calls (classifier), and in both cases the
\* failure value ("" or "NO") is stored in the cache under the URL or the
\* digest of the text and returned.
C18_FailuresEndAndAreCached ==
  /\ FailureEnds(crawl, 3, "",
                 IF crawl.arg = None THEN None ELSE CachedFor(_ARTICLE_CACHE, Val(crawl.arg)))
  /\ FailureEnds(ask, 4, "NO",
                 IF ask.arg = None THEN None ELSE CachedFor(_DRIC_CACHE, Digest(Val(ask.arg))))

C18_Witness ==
  /\ crawl.pc = "returned"
  /\ crawl.outcomes = <<"throttled", "throttled", "throttled">>
  /\ crawl.ret = ""
  /\ _ARTICLE_CACHE[Val(crawl.arg)] = ""
  /\ ask.pc = "returned"
  /\ ask.outcomes = <<"throttled", "error">>
  /\ ask.ret = "NO"
  /\ _DRIC_CACHE[Digest(Val(ask.arg))] = "NO"

\* C19: the rows are processed strictly one after the other: at most one of
\* the worker-thread calls (_crawl_article, _ask_dric) is in flight, a call is
\* in flight only while _process_row waits for it, the rows before the
\* current one have all emitted their record when the current one is
\* resolved, fetched or classified, and a record is emitted only once the
\* calls made for its row have returned.
C19_RowsStrictlySequential ==
  /\ ~(crawl.pc = "loop" /\ ask.pc = "loop")
  /\ crawl.pc = "loop" => ppc = "fetching"
  /\ ask.pc = "loop" => ppc = "classifying"
  /\ ppc \in {"rows", "resolved", "fetching", "classifying"} =>
       Len(dric_results) = row_idx - 1
  /\ \A i \in 1..Len(row_log) :
       /\ row_log[i].url # None => Val(row_log[i].url) \in DOMAIN fetched
       /\ (row_log[i].text # None /\ HasText(Val(row_log[i].text))) =>
            Val(row_log[i].text) \in DOMAIN answered

C19_Witness ==
  /\ ppc = "classifying"
  /\ ask.pc = "loop"
  /\ ask.attempt = 2
  /\ crawl.pc = "returned"
  /\ row_idx = 2
  /\ Len(dric_results) = 1
  /\ row_log[1].url # None
  /\ row_log[1].asks = 1

\* a persisted row is a scraped row whose year text parses to its year, and
\* the year lies within the bounds of the period
ParsedWithin(item, ymin, ymax) ==
  /\ \E row \in RowPool : row.id = item.id /\ ParseYear(row.year_text) = Some(item.year)
  /\ ymin <= item.year
  /\ item.year <= ymax

\* C20: what fetch_period persists holds only rows whose parsed year lies in
\* [year_min, year_max] (a row whose year does not parse is dropped), holds no
\* two equal rows, and keeps the rows in the order of their first occurrence
\* across awardees and query variants.
C20_PersistedRowsFilteredDeduped ==
  raw_publications # None =>
    /\ \A i \in 1..Len(Val(raw_publications)) :
         ParsedWithin(Val(raw_publications)[i], Val(fp_year_min), Val(fp_year_max))
    /\ IsDedupOf(Val(raw_publications), collected)

C20_Witness ==
  /\ fpc = "done"
  /\ Len(fp_searches) = 4
  /\ Len(collected) = 3
  /\ raw_publications = Some(<<[id |-> 2, year |-> 2018], [id |-> 1, year |-> 2016]>>)

\* the parsed year of a row of the table is strictly below ymin
RowBelow(row, ymin) ==
  ParseYear(row.year_text) # None /\ Val(ParseYear(row.year_text)) < ymin

\* the rows at the indices idx (0-based) of the table, in this order
RowsAt(tbl, idx) == [i \in 1..Len(idx) |-> tbl[idx[i] + 1]]

\* C21: scrape_for_name never returns a row whose parsed year is strictly
\* below year_min: the first such row it extracts makes it return at once the
\* rows collected so far, without that row, and nothing is extracted or
\* scrolled after it; a row whose year text does not parse is kept and never
\* stops the extraction.
C21_FloorRowEndsScrape ==
  LET n == Len(extracted)
      stopped == n > 0 /\ RowBelow(table[extracted[n] + 1], year_min)
      kept == IF stopped THEN SubSeq(extracted, 1, n - 1) ELSE extracted
  IN  /\ \A i \in 1..Len(scrape_ret) : ~RowBelow(scrape_ret[i], year_min)
      /\ \A i \in 1..(n - 1) : ~RowBelow(table[extracted[i] + 1], year_min)
      /\ results = RowsAt(table, kept)
      /\ stopped => (spc = "returned" /\ scrape_ret = RowsAt(table, kept))
      /\ \A i \in 1..n :
           ParseYear(table[extracted[i] + 1].year_text) = None =>
             \E k \in 1..Len(results) : results[k] = table[extracted[i] + 1]

C21_Witness ==
  /\ spc = "returned"
  /\ Len(table) = 3
  /\ rendered = 3
  /\ extracted = <<0, 1>>
  /\ table[1].year_text = NoYearText
  /\ RowBelow(table[2], year_min)
  /\ ~RowBelow(table[3], year_min)
  /\ scrape_ret = <<table[1]>>

\* scrape_for_name with the scheduling of the event loop: a call that can take
\* a step takes one
SpecScrapeLive == InitScrape /\ [][NextScrape]_vars /\ WF_vars(NextScrape)

\* the call has ended: a list was returned, or an exception left the function
ScrapeEnded == spc \in {"returned", "raised"}

\* C22: every call of scrape_for_name on a finite table ends, with or without
\* a cap: the while loop runs at most once per growth of the rendered row
\* count, once at first and once more to see that the count has stopped
\* growing, so at most (number of rows + 1) times, and it ends by returning a
\* list when the count stops growing, the scroller fails, a row below the
\* floor is met or the cap is reached.
C22_ScrapeTerminates ==
  /\ [](passes <= Len(table) + 1)
  /\ [](spc = "returned" => scrape_ret = Truncate(results, per_name_limit))
  /\ <>ScrapeEnded

C22_Witness ==
  /\ spc = "returned"
  /\ per_name_limit = None
  /\ ~scroll_failed
  /\ Len(table) = 3
  /\ rendered = 3
  /\ last_count = 3
  /\ passes = 4
  /\ Len(scrape_ret) >= 1
=============================================================================
